---- MODULE Spec2Model ----
(***************************************************************************)
(* Model of app.py: the keyword lookup over the three worksheets           *)
(* (find_reply_in_sheet) and the two webhook handlers that call it         *)
(* (handle_text_message, handle_follow).                                   *)
(*                                                                         *)
(* Strings are sequences of one-character strings.  A worksheet is a       *)
(* sequence of rows; a row is a function from column name to cell value,   *)
(* where the value None stands for a column the worksheet does not have    *)
(* (dict.get then yields None or the default given).                       *)
(***************************************************************************)
EXTENDS Integers, Sequences, FiniteSets, TLC

(***************************************************************************)
(* Python values                                                           *)
(***************************************************************************)

\* The value dict.get returns for a missing key.  Kept a sequence so that it
\* can be compared with strings.
None == <<"<None>">>

\* bool(v) for a str-or-None value.
Truthy(v) == v # None /\ v # <<>>

\* str(v) as an f-string or str.format renders it.
Str(v) == IF v = None THEN <<"N", "o", "n", "e">> ELSE v

\* row.get(key, default)
Get(row, key, default) == IF row[key] = None THEN default ELSE row[key]

\* str.strip(): leading and trailing whitespace removed.
RECURSIVE LStrip(_)
LStrip(s) == IF s # <<>> /\ Head(s) = " " THEN LStrip(Tail(s)) ELSE s

RECURSIVE RStrip(_)
RStrip(s) ==
    IF s # <<>> /\ s[Len(s)] = " " THEN RStrip(SubSeq(s, 1, Len(s) - 1)) ELSE s

Strip(s) == RStrip(LStrip(s))

\* needle in haystack, for strings.
Contains(haystack, needle) ==
    \E i \in 1..(Len(haystack) - Len(needle) + 1) :
        SubSeq(haystack, i, i + Len(needle) - 1) = needle

Digits == <<"0", "1", "2", "3", "4", "5", "6", "7", "8", "9">>

DigitValue(c) == (CHOOSE d \in 1..10 : Digits[d] = c) - 1

IsDigit(c) == \E d \in 1..10 : Digits[d] = c

RECURSIVE DecimalValue(_)
DecimalValue(s) ==
    IF s = <<>> THEN 0
    ELSE 10 * DecimalValue(SubSeq(s, 1, Len(s) - 1)) + DigitValue(s[Len(s)])

\* int(v): an int stays, a string of decimal digits is parsed, anything else
\* raises ValueError (ok = FALSE).
ToInt(v) ==
    IF v # <<>> /\ \A i \in 1..Len(v) : IsDigit(v[i])
    THEN [ok |-> TRUE, value |-> DecimalValue(v)]
    ELSE [ok |-> FALSE, value |-> 0]

(***************************************************************************)
(* re.search(pattern, text, re.IGNORECASE)                                 *)
(*                                                                         *)
(* Patterns of the grammar                                                 *)
(*     pattern ::= item*        item ::= atom | atom "?"                   *)
(*     atom    ::= char | "(" char* ")"                                    *)
(* where char is any character other than ( ) ?, together with the         *)
(* malformed patterns over the same characters: an unclosed "(", a ")"     *)
(* with no "(", a "?" with nothing to repeat.  Nested groups, a "?" inside *)
(* a group and "??" are outside the grammar and are never drawn as         *)
(* keywords.                                                               *)
(***************************************************************************)

\* Case folding of re.IGNORECASE on the letters the model uses.
Lower(c) ==
    CASE c = "A" -> "a"
      [] c = "B" -> "b"
      [] c = "F" -> "f"
      [] OTHER -> c

ReError == [ok |-> FALSE, items |-> <<>>]

\* Index of the first ")" at or after i, 0 if none.
RECURSIVE CloseIndex(_, _)
CloseIndex(p, i) ==
    IF i > Len(p) THEN 0
    ELSE IF p[i] = ")" THEN i
    ELSE CloseIndex(p, i + 1)

\* item followed by the items of rest, when rest compiled.
Cons(item, rest) ==
    IF rest.ok THEN [ok |-> TRUE, items |-> <<item>> \o rest.items] ELSE ReError

\* re.compile: the items of the pattern from position i on, or ReError.
\* An item is [lit: the characters to match, grp: it is a capturing group,
\* opt: it is followed by "?"].
RECURSIVE Compile(_, _)

\* The atom p[i..close] with the characters inner, and what follows it.
CompileAtom(p, i, close, inner) ==
    IF \E k \in 1..Len(inner) : inner[k] = "(" \/ inner[k] = "?" THEN ReError
    ELSE IF close < Len(p) /\ p[close + 1] = "?"
    THEN Cons([lit |-> inner, grp |-> p[i] = "(", opt |-> TRUE],
              Compile(p, close + 2))
    ELSE Cons([lit |-> inner, grp |-> p[i] = "(", opt |-> FALSE],
              Compile(p, close + 1))

\* The group opened at p[i], closed at p[close] (0: not closed).
CompileGroup(p, i, close) ==
    IF close = 0 THEN ReError
    ELSE CompileAtom(p, i, close, SubSeq(p, i + 1, close - 1))

Compile(p, i) ==
    IF i > Len(p) THEN [ok |-> TRUE, items |-> <<>>]
    ELSE IF p[i] = ")" \/ p[i] = "?" THEN ReError
    ELSE IF p[i] = "(" THEN CompileGroup(p, i, CloseIndex(p, i + 1))
    ELSE CompileAtom(p, i, i, <<p[i]>>)

\* The literal lit occurs in text at position pos, ignoring case.
LitAt(lit, text, pos) ==
    /\ pos + Len(lit) - 1 <= Len(text)
    /\ \A k \in 1..Len(lit) : Lower(text[pos + k - 1]) = Lower(lit[k])

NoMatch == [matched |-> FALSE, caps |-> <<>>]

\* caps with the capture of item it added, if it is a group.
Capture(caps, it, got) == IF it.grp THEN Append(caps, got) ELSE caps

\* The backtracking matcher at one start position: items k.. against text
\* from pos, greedy (an optional item is tried present first).  caps holds
\* one entry per capturing group seen so far, None for a group that did
\* not take part.
RECURSIVE MatchAt(_, _, _, _, _)

\* take: the outcome with item k present; else without it, if optional.
MatchOpt(items, k, text, pos, caps, take) ==
    IF take.matched THEN take
    ELSE IF items[k].opt
    THEN MatchAt(items, k + 1, text, pos, Capture(caps, items[k], None))
    ELSE NoMatch

MatchItem(items, k, text, pos, caps, it) ==
    MatchOpt(items, k, text, pos, caps,
             IF LitAt(it.lit, text, pos)
             THEN MatchAt(items, k + 1, text, pos + Len(it.lit),
                          Capture(caps, it,
                                  SubSeq(text, pos, pos + Len(it.lit) - 1)))
             ELSE NoMatch)

MatchAt(items, k, text, pos, caps) ==
    IF k > Len(items) THEN [matched |-> TRUE, caps |-> caps]
    ELSE MatchItem(items, k, text, pos, caps, items[k])

\* The scan over start positions: the leftmost match wins.
RECURSIVE SearchFrom(_, _, _)

FirstMatch(items, text, pos, m) ==
    IF m.matched THEN m ELSE SearchFrom(items, text, pos + 1)

SearchFrom(items, text, pos) ==
    IF pos > Len(text) + 1 THEN NoMatch
    ELSE FirstMatch(items, text, pos, MatchAt(items, 1, text, pos, <<>>))

\* The match object for a compiled pattern: matched, and groups as
\* match.groups() gives them.
MatchObject(m) == [raised |-> FALSE, matched |-> m.matched, groups |-> m.caps]

SearchCompiled(c, text) ==
    IF ~c.ok THEN [raised |-> TRUE, matched |-> FALSE, groups |-> <<>>]
    ELSE MatchObject(SearchFrom(c.items, text, 1))

\* re.search: raised (re.error), or the match object.
ReSearch(pattern, text) == SearchCompiled(Compile(pattern, 1), text)

(***************************************************************************)
(* str.format(num=value)                                                   *)
(*                                                                         *)
(* "{{" and "}}" are escapes; "{name}" is a replacement field; a field     *)
(* other than "{num}" raises (KeyError for a name, IndexError for "{}"),   *)
(* a single "}" or an unclosed "{" raises ValueError.                      *)
(***************************************************************************)
NumField == <<"{", "n", "u", "m", "}">>

FormatError == [ok |-> FALSE, text |-> <<>>]

\* piece followed by the rendering of the rest, when that did not raise.
Join(piece, rest) ==
    IF rest.ok THEN [ok |-> TRUE, text |-> piece \o rest.text] ELSE FormatError

RECURSIVE Format(_, _)
Format(t, value) ==
    IF t = <<>> THEN [ok |-> TRUE, text |-> <<>>]
    ELSE IF Len(t) >= 2 /\ ((t[1] = "{" /\ t[2] = "{") \/ (t[1] = "}" /\ t[2] = "}"))
    THEN Join(<<t[1]>>, Format(SubSeq(t, 3, Len(t)), value))
    ELSE IF t[1] = "}" THEN FormatError
    ELSE IF t[1] = "{"
    THEN IF Len(t) >= 5 /\ SubSeq(t, 1, 5) = NumField
         THEN Join(Str(value), Format(SubSeq(t, 6, Len(t)), value))
         ELSE FormatError
    ELSE Join(<<t[1]>>, Format(Tail(t), value))

(***************************************************************************)
(* Message objects of linebot.v3.messaging                                 *)
(*                                                                         *)
(* The models are pydantic classes; a required string field given None     *)
(* fails validation and the constructor raises.  An empty string passes.   *)
(***************************************************************************)
TextMessage(text) == [type |-> "text", text |-> text]

ImageMessage(original_content_url, preview_image_url) ==
    [type |-> "image", original_content_url |-> original_content_url,
     preview_image_url |-> preview_image_url]

VideoMessage(original_content_url, preview_image_url) ==
    [type |-> "video", original_content_url |-> original_content_url,
     preview_image_url |-> preview_image_url]

AudioMessage(original_content_url, duration) ==
    [type |-> "audio", original_content_url |-> original_content_url,
     duration |-> duration]

URIAction(label, uri) == [type |-> "uri", label |-> label, uri |-> uri]

ButtonsTemplate(text, actions) ==
    [type |-> "buttons", text |-> text, actions |-> actions]

TemplateMessage(alt_text, template) ==
    [type |-> "template", alt_text |-> alt_text, template |-> template]

\* Validation of a required string field.
Rejected(v) == v = None

(***************************************************************************)
(* Literals of app.py.  A literal is kept as one piece; the Thai texts are *)
(* written in romanised form.                                              *)
(***************************************************************************)
TypeText     == <<"t", "e", "x", "t">>
TypeImage    == <<"i", "m", "a", "g", "e">>
TypeVideo    == <<"v", "i", "d", "e", "o">>
TypeAudio    == <<"a", "u", "d", "i", "o">>
TypeRedirect == <<"r", "e", "d", "i", "r", "e", "c", "t">>
TypeCombo    == <<"c", "o", "m", "b", "o">>

DefaultButtonLabel  == <<"khlik thi ni">>
DefaultRedirectText == <<"karuna kot pum dan lang phuea damnoen kan to">>
DefaultComboText    == <<"damnoen kan to">>
DeepLinkPrefix      == <<"https://line.me/R/ti/p/">>
AltText             == <<"Information">>
ErrorText           == <<"Sorry, there was an error reading the database.">>
GreetingText        == <<"sawatdi kha! yindi tonrap su Work Inn AI kha">>
NotFoundText        == <<"kho aphai kha mai phop khomun thi than sopham">>
FollowKey           == <<"@", "f", "o", "l", "l", "o", "w">>

DefaultDurationMillis == 60000

\* The cap the combo branch tests before each append after the text.
MaxItems == 5

(***************************************************************************)
(* find_reply_in_sheet                                                     *)
(***************************************************************************)

\* RedirectUri with the precedence turned round: the OA id before the URL.
RedirectUriOaFirst(row) ==
    IF Truthy(row["RedirectOA_ID"])
    THEN DeepLinkPrefix \o Str(row["RedirectOA_ID"])
    ELSE IF Truthy(row["RedirectURL"]) THEN row["RedirectURL"]
    ELSE DeepLinkPrefix \o Str(row["RedirectOA_ID"])

\* The button of a redirect or combo row.
RedirectUri(row) ==
    IF Truthy(row["RedirectURL"]) THEN row["RedirectURL"]
    ELSE DeepLinkPrefix \o Str(row["RedirectOA_ID"])

Button(text_above_button, button_label, redirect_uri) ==
    TemplateMessage(AltText,
        ButtonsTemplate(text_above_button,
                        <<URIAction(button_label, redirect_uri)>>))

\* What the body of the for loop does with one row.
Continue      == [out |-> "continue", items |-> <<>>]
Return(items) == [out |-> "return", items |-> items]
Raise         == [out |-> "raise", items |-> <<>>]

\* [TextMessage(text=reply_text)] for the rendering f of the template.
Formatted(f) == IF f.ok THEN Return(<<TextMessage(f.text)>>) ELSE Raise

TextReply(reply_template, match) ==
    IF Contains(reply_template, NumField) /\ match.groups # <<>>
    THEN Formatted(Format(reply_template, match.groups[1]))
    ELSE Return(<<TextMessage(reply_template)>>)

TextReplyOf(row, match) == TextReply(Get(row, "TextReply", <<>>), match)

ImageReply(img_url) ==
    IF Rejected(img_url) THEN Raise
    ELSE Return(<<ImageMessage(img_url, img_url)>>)

ImageReplyOf(row) == ImageReply(row["ImageURL1"])

VideoReply(video_url, preview_url) ==
    IF Rejected(video_url) \/ Rejected(preview_url) THEN Raise
    ELSE Return(<<VideoMessage(video_url, preview_url)>>)

VideoReplyOf(row) == VideoReply(row["VideoURL"], row["PreviewImageURL"])

\* int(row.get('DurationMillis', 60000))
DurationOf(row) ==
    IF row["DurationMillis"] = None
    THEN [ok |-> TRUE, value |-> DefaultDurationMillis]
    ELSE ToInt(row["DurationMillis"])

AudioReply(audio_url, duration) ==
    IF ~duration.ok \/ Rejected(audio_url) THEN Raise
    ELSE Return(<<AudioMessage(audio_url, duration.value)>>)

AudioReplyOf(row) == AudioReply(row["AudioURL"], DurationOf(row))

RedirectReplyOf(row) ==
    Return(<<Button(Get(row, "TextReply", DefaultRedirectText),
                    Get(row, "ButtonLabel", DefaultButtonLabel),
                    RedirectUri(row))>>)

ImageColumns == <<"ImageURL1", "ImageURL2", "ImageURL3", "ImageURL4">>

\* Step 1 of the combo branch: the text, if there is one.
AddText(row) ==
    IF Truthy(row["TextReply"]) THEN <<TextMessage(row["TextReply"])>> ELSE <<>>

\* Step 2, for i in range(1, 5): the images from column i on.
RECURSIVE AddImages(_, _, _)
AddImages(row, i, messages) ==
    IF i > Len(ImageColumns) THEN messages
    ELSE IF Len(messages) < MaxItems /\ Truthy(row[ImageColumns[i]])
    THEN AddImages(row, i + 1,
                   Append(messages, ImageMessage(row[ImageColumns[i]],
                                                 row[ImageColumns[i]])))
    ELSE AddImages(row, i + 1, messages)

\* AddVideo without the test of PreviewImageURL.
AddVideoWithoutPreview(row, messages) ==
    IF Len(messages) < MaxItems /\ Truthy(row["VideoURL"])
    THEN Append(messages, VideoMessage(row["VideoURL"], row["PreviewImageURL"]))
    ELSE messages

\* Step 3: the video.
AddVideo(row, messages) ==
    IF /\ Len(messages) < MaxItems
       /\ Truthy(row["VideoURL"]) /\ Truthy(row["PreviewImageURL"])
    THEN Append(messages, VideoMessage(row["VideoURL"], row["PreviewImageURL"]))
    ELSE messages

\* AddButton without the test of the cap.
AddButtonUncapped(row, messages) ==
    IF Truthy(row["RedirectOA_ID"]) \/ Truthy(row["RedirectURL"])
    THEN Append(messages, Button(Get(row, "ButtonLabel", DefaultComboText),
                                 Get(row, "ButtonLabel", DefaultButtonLabel),
                                 RedirectUri(row)))
    ELSE messages

\* Step 4: the button.
AddButton(row, messages) ==
    IF /\ Len(messages) < MaxItems
       /\ (Truthy(row["RedirectOA_ID"]) \/ Truthy(row["RedirectURL"]))
    THEN Append(messages, Button(Get(row, "ButtonLabel", DefaultComboText),
                                 Get(row, "ButtonLabel", DefaultButtonLabel),
                                 RedirectUri(row)))
    ELSE messages

ComboReplyOf(row) ==
    Return(AddButton(row, AddVideo(row, AddImages(row, 1, AddText(row)))))

\* The branch on ResponseType for a row whose keyword matched.
Branch(row, match, response_type) ==
    CASE response_type = TypeText     -> TextReplyOf(row, match)
      [] response_type = TypeImage    -> ImageReplyOf(row)
      [] response_type = TypeVideo    -> VideoReplyOf(row)
      [] response_type = TypeAudio    -> AudioReplyOf(row)
      [] response_type = TypeRedirect -> RedirectReplyOf(row)
      [] response_type = TypeCombo    -> ComboReplyOf(row)
      [] OTHER                        -> Continue

ComposeRow(row, match) == Branch(row, match, row["ResponseType"])

\* "if match:" on what re.search gave.
OnMatch(row, match) ==
    IF match.raised THEN Raise
    ELSE IF match.matched THEN ComposeRow(row, match)
    ELSE Continue

\* One iteration of the for loop: a row without keyword is passed over,
\* any other is searched.
EvalRow(row, user_message) ==
    IF ~Truthy(row["Keyword"]) THEN Continue
    ELSE OnMatch(row, ReSearch(row["Keyword"], user_message))

\* The for loop from row i on.  searched: the rows re.search was called on.
RECURSIVE ScanRows(_, _, _, _)

\* r: what the body did with row i.
ScanStep(qna_data, i, user_message, searched, r) ==
    IF r.out = "continue" THEN ScanRows(qna_data, i + 1, user_message, searched)
    ELSE [out |-> r.out, items |-> r.items, searched |-> searched]

ScanRows(qna_data, i, user_message, searched) ==
    IF i > Len(qna_data)
    THEN [out |-> "none", items |-> <<>>, searched |-> searched]
    ELSE ScanStep(qna_data, i, user_message,
                  IF Truthy(qna_data[i]["Keyword"]) THEN Append(searched, i)
                  ELSE searched,
                  EvalRow(qna_data[i], user_message))

\* What the function returns after the loop ended as r: None, the list of
\* the row that returned, or the list of the except clause.
Returned(r) ==
    [is_none     |-> r.out = "none",
     items       |-> IF r.out = "raise" THEN <<TextMessage(ErrorText)>> ELSE r.items,
     read_failed |-> FALSE,
     searched    |-> r.searched]

\* find_reply_in_sheet with a failed read treated as a worksheet without a
\* match: None instead of the error text.
find_reply_none_on_read_error(data, read_fails, user_message) ==
    IF read_fails
    THEN [is_none |-> TRUE, items |-> <<>>, read_failed |-> TRUE, searched |-> <<>>]
    ELSE Returned(ScanRows(data, 1, user_message, <<>>))

\* The result of one call: is_none for a return of None, items for a list;
\* read_failed: get_all_records raised; searched as in ScanRows.
\* data is what sheet.get_all_records() yields when it does not raise.
find_reply_in_sheet(data, read_fails, user_message) ==
    IF read_fails
    THEN [is_none |-> FALSE, items |-> <<TextMessage(ErrorText)>>,
          read_failed |-> TRUE, searched |-> <<>>]
    ELSE Returned(ScanRows(data, 1, user_message, <<>>))

\* "if reply_messages:" on what find_reply_in_sheet returned.
Found(r) == ~r.is_none /\ r.items # <<>>

(***************************************************************************)
(* State                                                                   *)
(***************************************************************************)
VARIABLES
    simple_qna_sheet,  \* worksheet handle: TRUE, or FALSE for None
    digital_sheet,
    general_sheet,
    records,           \* worksheet name -> what get_all_records() yields
    event,             \* the event of the last request
    calls,             \* the find_reply_in_sheet calls of the last request
    reply_messages     \* what the last request handed to reply_message

vars == <<simple_qna_sheet, digital_sheet, general_sheet, records, event,
          calls, reply_messages>>

SheetNames == <<"SimpleQnA", "DigitalQnA", "GeneralQnA">>

Columns ==
    {"Keyword", "ResponseType", "TextReply", "ImageURL1", "ImageURL2",
     "ImageURL3", "ImageURL4", "VideoURL", "PreviewImageURL", "AudioURL",
     "DurationMillis", "ButtonLabel", "RedirectURL", "RedirectOA_ID"}

\* A row of a worksheet that has every column, all cells empty.
EmptyRow == [c \in Columns |-> <<>>]

\* The row with the cells of f written over those of base.
With(base, f) == [c \in Columns |-> IF c \in DOMAIN f THEN f[c] ELSE base[c]]

(***************************************************************************)
(* Worksheet contents and messages the model draws from                    *)
(***************************************************************************)
MaxRows == 3

KwF       == <<"f">>
KwB       == <<"b">>
KwBad     == <<"(", "f">>
KwOptGrp  == <<"f", "(", "b", ")", "?">>
KwGrp     == <<"(", "f", ")">>
KwTwoGrp  == <<"(", "b", ")", "?", "(", "f", ")">>

\* Rows for the search over worksheets: text rows for two keywords, a row
\* with a malformed keyword, a combo row with nothing to send, an image row
\* with an empty URL cell, a row of a type the code has no branch for and a
\* row without keyword.
RowF      == With(EmptyRow, [Keyword |-> KwF, ResponseType |-> TypeText,
                             TextReply |-> <<"x">>])
RowB      == With(EmptyRow, [Keyword |-> KwB, ResponseType |-> TypeText,
                             TextReply |-> <<"y">>])
RowBad    == With(EmptyRow, [Keyword |-> KwBad, ResponseType |-> TypeText,
                             TextReply |-> <<"z">>])
RowEmpty  == With(EmptyRow, [Keyword |-> KwF, ResponseType |-> TypeCombo])
RowNoUrl  == With(EmptyRow, [Keyword |-> KwF, ResponseType |-> TypeImage])
RowOther  == With(EmptyRow, [Keyword |-> KwF,
                             ResponseType |-> <<"i", "m", "a", "g", "e", "_",
                                                "t", "e", "x", "t">>,
                             TextReply |-> <<"x">>])
RowNoKw   == With(EmptyRow, [ResponseType |-> TypeText, TextReply |-> <<"x">>])

SearchRows == {RowF, RowB, RowBad, RowEmpty, RowNoUrl, RowOther, RowNoKw}

\* Rows for the composition of one reply, by ResponseType.  None is a column
\* the worksheet does not have, <<>> an empty cell.
Templates ==
    {<<>>, <<"p">>, <<"p", "{", "n", "u", "m", "}", "!">>,
     <<"{", "n", "u", "m", "}", "{", "x", "}">>,
     <<"{", "{", "n", "u", "m", "}", "}">>, <<"{", "x", "}">>}

Url(c) == <<"u", c>>

OaId == <<"@", "a", "b", "c">>

TextRows ==
    {With(EmptyRow, [Keyword |-> k, ResponseType |-> TypeText, TextReply |-> t]) :
        k \in {KwF, KwOptGrp, KwGrp, KwTwoGrp}, t \in Templates \cup {None}}

ImageRows ==
    {With(EmptyRow, [Keyword |-> KwF, ResponseType |-> TypeImage, ImageURL1 |-> u]) :
        u \in {None, <<>>, Url("1")}}

VideoRows ==
    {With(EmptyRow, [Keyword |-> KwF, ResponseType |-> TypeVideo,
                     VideoURL |-> v, PreviewImageURL |-> q]) :
        v \in {None, <<>>, Url("v")}, q \in {None, <<>>, Url("p")}}

AudioRows ==
    {With(EmptyRow, [Keyword |-> KwF, ResponseType |-> TypeAudio,
                     AudioURL |-> a, DurationMillis |-> d]) :
        a \in {None, <<>>, Url("a")}, d \in {None, <<>>, <<"9", "0">>, <<"x">>}}

RedirectRows ==
    {With(EmptyRow, [Keyword |-> KwF, ResponseType |-> TypeRedirect,
                     TextReply |-> t, ButtonLabel |-> b,
                     RedirectURL |-> r, RedirectOA_ID |-> o]) :
        t \in {None, <<>>, <<"t">>}, b \in {None, <<"L">>},
        r \in {None, <<>>, Url("r")}, o \in {None, <<>>, OaId}}

ComboRows ==
    {With(EmptyRow, [Keyword |-> KwF, ResponseType |-> TypeCombo,
                     TextReply |-> t, ImageURL1 |-> i1, ImageURL2 |-> i2,
                     ImageURL3 |-> i3, ImageURL4 |-> i4, VideoURL |-> v,
                     PreviewImageURL |-> q, ButtonLabel |-> b,
                     RedirectURL |-> r, RedirectOA_ID |-> o]) :
        t \in {<<>>, <<"t">>}, i1 \in {<<>>, Url("1")}, i2 \in {<<>>, Url("2")},
        i3 \in {<<>>, Url("3")}, i4 \in {<<>>, Url("4")},
        v \in {<<>>, Url("v")}, q \in {<<>>, Url("p")}, b \in {None, <<"L">>},
        r \in {<<>>, Url("r")}, o \in {<<>>, OaId}}

ComposeRows ==
    TextRows \cup ImageRows \cup VideoRows \cup AudioRows \cup RedirectRows
        \cup ComboRows

\* The worksheets holding the rows of s: the first i in SimpleQnA, the next
\* j - i in DigitalQnA, the rest in GeneralQnA (i <= j <= Len(s)).
Split(s, i, j) ==
    [n \in {SheetNames[k] : k \in 1..3} |->
        CASE n = "SimpleQnA"  -> SubSeq(s, 1, i)
          [] n = "DigitalQnA" -> SubSeq(s, i + 1, j)
          [] n = "GeneralQnA" -> SubSeq(s, j + 1, Len(s))]

\* records holds at most max rows drawn from rows, laid out over the three
\* worksheets in some way.
Workbook(rows, max) ==
    \E n \in 0..max : \E s \in [1..n -> rows] : \E i \in 0..n : \E j \in i..n :
        records = Split(s, i, j)

\* Raw message texts, before strip().
Messages == {<<"F">>, <<" ", "b", " ">>, <<"f", "b">>, <<"c">>}

(***************************************************************************)
(* Start-up (lines 38-62): the worksheets are opened in order and the      *)
(* first failure leaves the remaining handles None.  records of a          *)
(* worksheet that was not opened is empty: nothing is ever read from it.   *)
(***************************************************************************)
Handles ==
    /\ simple_qna_sheet \in BOOLEAN
    /\ digital_sheet \in BOOLEAN
    /\ general_sheet \in BOOLEAN
    /\ general_sheet => digital_sheet
    /\ digital_sheet => simple_qna_sheet

Opened ==
    /\ ~simple_qna_sheet => records["SimpleQnA"] = <<>>
    /\ ~digital_sheet => records["DigitalQnA"] = <<>>
    /\ ~general_sheet => records["GeneralQnA"] = <<>>

\* No request is being served.
Idle ==
    /\ event = [type |-> "none", text |-> <<>>]
    /\ calls = <<>>
    /\ reply_messages = <<>>

Init ==
    /\ Handles
    /\ Workbook(SearchRows, MaxRows)
    /\ Opened
    /\ Idle

\* One row, in one of the worksheets.
InitCompose ==
    /\ Handles
    /\ Workbook(ComposeRows, 1)
    /\ records # Split(<<>>, 0, 0)
    /\ Opened
    /\ Idle

(***************************************************************************)
(* The handlers                                                            *)
(***************************************************************************)

\* sheets_to_search = [simple_qna_sheet, digital_sheet, general_sheet]
sheets_to_search == <<simple_qna_sheet, digital_sheet, general_sheet>>

\* The loop over sheets_to_search from position k on; failing is the
\* worksheet whose get_all_records() raises during this request, if it is
\* read ("none": no read raises; a read that raises ends the loop, so no
\* second one can).  Yields the calls made, in order.
RECURSIVE SearchSheets(_, _, _, _)

\* SearchStep without the break: the loop goes on after a reply was found.
SearchStepNoBreak(k, user_message, failing, made, r) ==
    SearchSheets(k + 1, user_message, failing,
                 Append(made, [sheet |-> SheetNames[k], result |-> r]))

\* r: what the call for sheet k returned; "if reply_messages: break".
SearchStep(k, user_message, failing, made, r) ==
    IF Found(r) THEN Append(made, [sheet |-> SheetNames[k], result |-> r])
    ELSE SearchSheets(k + 1, user_message, failing,
                      Append(made, [sheet |-> SheetNames[k], result |-> r]))

SearchSheets(k, user_message, failing, made) ==
    IF k > Len(sheets_to_search) THEN made
    ELSE IF ~sheets_to_search[k]
    THEN SearchSheets(k + 1, user_message, failing, made)
    ELSE SearchStep(k, user_message, failing, made,
                    find_reply_in_sheet(records[SheetNames[k]],
                                        SheetNames[k] = failing, user_message))

\* reply_messages after the calls made: the last result, or the fallback
\* when that is None or empty or no call was made.
ReplyOf(made, fallback) ==
    IF made # <<>> /\ Found(made[Len(made)].result)
    THEN made[Len(made)].result.items
    ELSE <<TextMessage(fallback)>>

handle_text_message(text, failing) ==
    /\ Idle
    /\ event' = [type |-> "message", text |-> text]
    /\ calls' = SearchSheets(1, Strip(text), failing, <<>>)
    /\ reply_messages' = ReplyOf(calls', NotFoundText)
    /\ UNCHANGED <<simple_qna_sheet, digital_sheet, general_sheet, records>>

handle_follow(read_fails) ==
    /\ Idle
    /\ event' = [type |-> "follow", text |-> <<>>]
    /\ calls' = IF general_sheet
                THEN <<[sheet |-> "GeneralQnA",
                        result |-> find_reply_in_sheet(records["GeneralQnA"],
                                                       read_fails, FollowKey)]>>
                ELSE <<>>
    /\ reply_messages' = ReplyOf(calls', GreetingText)
    /\ UNCHANGED <<simple_qna_sheet, digital_sheet, general_sheet, records>>

\* callback: the handler has replied and the route returns 'OK'; what the
\* request held is gone.
callback ==
    /\ event.type # "none"
    /\ event' = [type |-> "none", text |-> <<>>]
    /\ calls' = <<>>
    /\ reply_messages' = <<>>
    /\ UNCHANGED <<simple_qna_sheet, digital_sheet, general_sheet, records>>

Next ==
    \/ \E text \in Messages, failing \in {SheetNames[k] : k \in 1..3} \cup {"none"} :
           handle_text_message(text, failing)
    \/ \E read_fails \in BOOLEAN : handle_follow(read_fails)
    \/ callback

Spec == Init /\ [][Next]_vars

SpecCompose == InitCompose /\ [][Next]_vars

(***************************************************************************)
(* Vocabulary of the properties                                            *)
(***************************************************************************)
Last(q) == q[Len(q)]

InSeq(x, q) == \E k \in 1..Len(q) : q[k] = x

Take(q, n) == SubSeq(q, 1, IF Len(q) < n THEN Len(q) ELSE n)

\* The text the rows are matched against in the request being served.
UserMessage == IF event.type = "follow" THEN FollowKey ELSE Strip(event.text)

Malformed(row) ==
    Truthy(row["Keyword"]) /\ ReSearch(row["Keyword"], UserMessage).raised

Matches(row) ==
    Truthy(row["Keyword"]) /\ ReSearch(row["Keyword"], UserMessage).matched

\* The items the row composes for the message, none if it composes nothing.
ItemsOf(row) == ComposeRow(row, ReSearch(row["Keyword"], UserMessage)).items

\* The row matches and composes a non-empty reply.
Yields(row) ==
    /\ Matches(row)
    /\ ComposeRow(row, ReSearch(row["Keyword"], UserMessage)).out = "return"
    /\ ItemsOf(row) # <<>>

ErrorReply == <<[type |-> "text", text |-> ErrorText]>>

NotFoundReply == <<[type |-> "text", text |-> NotFoundText]>>

GreetingReply == <<[type |-> "text", text |-> GreetingText]>>

NoReadFailed == \A n \in 1..Len(calls) : ~calls[n].result.read_failed

IsOpen(name) ==
    CASE name = "SimpleQnA"  -> simple_qna_sheet
      [] name = "DigitalQnA" -> digital_sheet
      [] name = "GeneralQnA" -> general_sheet

\* The call that searched the only row of the workbook, in SpecCompose.
OneRowSearched(c) ==
    /\ ~c.result.read_failed
    /\ c.result.searched = <<1>>

(***************************************************************************)
(* C1: in handle_text_message, once a searched row matches and composes a  *)
(* non-empty reply, the reply sent is exactly that row's items, no later   *)
(* row of the same worksheet is searched and no lower-priority worksheet   *)
(* is read.                                                                *)
(***************************************************************************)
C1_FirstMatchWins ==
    event.type = "message" =>
        \A n \in 1..Len(calls) :
            \A i \in 1..Len(records[calls[n].sheet]) :
                (/\ InSeq(i, calls[n].result.searched)
                 /\ Yields(records[calls[n].sheet][i]))
                => /\ reply_messages = ItemsOf(records[calls[n].sheet][i])
                   /\ Last(calls[n].result.searched) = i
                   /\ n = Len(calls)

\* A match in row 1 of SimpleQnA, with a row after it in the same worksheet
\* and a row in DigitalQnA that would both have given a different reply.
C1_Witness ==
    /\ event.type = "message"
    /\ Len(calls) = 1
    /\ calls[1].sheet = "SimpleQnA"
    /\ calls[1].result.searched = <<1>>
    /\ Len(records["SimpleQnA"]) >= 2
    /\ Len(records["DigitalQnA"]) >= 1
    /\ digital_sheet
    /\ Yields(records["SimpleQnA"][1])
    /\ Yields(records["SimpleQnA"][2])
    /\ Yields(records["DigitalQnA"][1])
    /\ ItemsOf(records["SimpleQnA"][2]) # ItemsOf(records["SimpleQnA"][1])
    /\ ItemsOf(records["DigitalQnA"][1]) # ItemsOf(records["SimpleQnA"][1])
    /\ reply_messages = ItemsOf(records["SimpleQnA"][1])

(***************************************************************************)
(* C2: find_reply_in_sheet never returns more than 5 items, and every      *)
(* reply handed to reply_message, by handle_text_message or handle_follow, *)
(* has at least 1 and at most 5 items.                                     *)
(***************************************************************************)
C2_ReplyWithinOneToFive ==
    /\ \A n \in 1..Len(calls) : Len(calls[n].result.items) <= 5
    /\ event.type # "none" => Len(reply_messages) >= 1 /\ Len(reply_messages) <= 5

\* A combo row with more than five things to send: the reply has five.
C2_Witness ==
    /\ event.type = "message"
    /\ Len(reply_messages) = 5
    /\ Len(calls) = 1
    /\ OneRowSearched(calls[1])
    /\ records[calls[1].sheet][1]["ResponseType"] = TypeCombo
    /\ Truthy(records[calls[1].sheet][1]["VideoURL"])
    /\ Truthy(records[calls[1].sheet][1]["PreviewImageURL"])
    /\ Truthy(records[calls[1].sheet][1]["RedirectURL"])

(***************************************************************************)
(* C3: a row whose Keyword is not a valid regular expression is skipped:   *)
(* the call that searched it does not end in the error reply because of    *)
(* it, and a valid row right after it that matches with a non-empty reply  *)
(* still gives the reply.                                                  *)
(***************************************************************************)
C3_MalformedKeywordSkipped ==
    event.type = "message" =>
        \A n \in 1..Len(calls) :
            \A i \in 1..Len(records[calls[n].sheet]) :
                (/\ ~calls[n].result.read_failed
                 /\ InSeq(i, calls[n].result.searched)
                 /\ Malformed(records[calls[n].sheet][i]))
                => /\ calls[n].result.items # ErrorReply
                   /\ (/\ i < Len(records[calls[n].sheet])
                       /\ Yields(records[calls[n].sheet][i + 1]))
                      => reply_messages = ItemsOf(records[calls[n].sheet][i + 1])

(***************************************************************************)
(* C4: a matching row that lacks a field its ResponseType requires gives   *)
(* no item and no error reply, and when it leaves the list empty the       *)
(* search goes on with the next row of the same worksheet.                 *)
(***************************************************************************)
LacksRequired(row) ==
    CASE row["ResponseType"] = TypeImage -> ~Truthy(row["ImageURL1"])
      [] row["ResponseType"] = TypeVideo ->
             ~Truthy(row["VideoURL"]) \/ ~Truthy(row["PreviewImageURL"])
      [] row["ResponseType"] = TypeAudio -> ~Truthy(row["AudioURL"])
      [] row["ResponseType"] = TypeRedirect ->
             ~Truthy(row["RedirectURL"]) /\ ~Truthy(row["RedirectOA_ID"])
      [] row["ResponseType"] = TypeCombo ->
             /\ ~Truthy(row["TextReply"])
             /\ \A k \in 1..4 : ~Truthy(row[ImageColumns[k]])
             /\ ~Truthy(row["VideoURL"]) \/ ~Truthy(row["PreviewImageURL"])
             /\ ~Truthy(row["RedirectURL"]) /\ ~Truthy(row["RedirectOA_ID"])
      [] OTHER -> FALSE

C4_MissingFieldFallsThrough ==
    event.type = "message" =>
        \A n \in 1..Len(calls) :
            \A i \in 1..Len(records[calls[n].sheet]) :
                (/\ ~calls[n].result.read_failed
                 /\ InSeq(i, calls[n].result.searched)
                 /\ Last(calls[n].result.searched) = i
                 /\ Matches(records[calls[n].sheet][i])
                 /\ LacksRequired(records[calls[n].sheet][i]))
                => /\ calls[n].result.items = <<>>
                   /\ \A j \in (i + 1)..Len(records[calls[n].sheet]) :
                          ~Truthy(records[calls[n].sheet][j]["Keyword"])

(***************************************************************************)
(* C5: if reading a worksheet fails during handle_text_message, the reply  *)
(* is the one generic error text and no lower-priority worksheet is read   *)
(* or searched, whatever the worksheets read before it held.               *)
(***************************************************************************)
C5_ReadFailureEndsSearch ==
    event.type = "message" =>
        \A n \in 1..Len(calls) :
            calls[n].result.read_failed
            => /\ reply_messages = ErrorReply
               /\ n = Len(calls)
               /\ calls[n].result.searched = <<>>

\* SimpleQnA was read without a match, the read of DigitalQnA failed and
\* GeneralQnA holds a row that matches.
C5_Witness ==
    /\ event.type = "message"
    /\ Len(calls) = 2
    /\ calls[1].result.searched # <<>>
    /\ calls[2].sheet = "DigitalQnA"
    /\ calls[2].result.read_failed
    /\ general_sheet
    /\ \E i \in 1..Len(records["GeneralQnA"]) : Yields(records["GeneralQnA"][i])
    /\ reply_messages = ErrorReply

(***************************************************************************)
(* C6: handle_text_message sends the default "not found" text exactly when *)
(* no read fails and no row of a worksheet it can search matches the       *)
(* message with a non-empty reply.                                         *)
(***************************************************************************)
SomeRowYields ==
    \E k \in 1..3 :
        /\ IsOpen(SheetNames[k])
        /\ \E i \in 1..Len(records[SheetNames[k]]) :
               Yields(records[SheetNames[k]][i])

C6_DefaultIffNothingFound ==
    event.type = "message" =>
        (reply_messages = NotFoundReply <=> (NoReadFailed /\ ~SomeRowYields))

(***************************************************************************)
(* C7: a matching text row replies with one text item: TextReply with      *)
(* {num} replaced by the first captured substring when the template has    *)
(* the placeholder and the first group took part in the match, TextReply   *)
(* verbatim in every other case.                                           *)
(***************************************************************************)
RECURSIVE Replaced(_, _)
Replaced(t, v) ==
    IF t = <<>> THEN <<>>
    ELSE IF Len(t) >= 5 /\ SubSeq(t, 1, 5) = NumField
    THEN v \o Replaced(SubSeq(t, 6, Len(t)), v)
    ELSE <<t[1]>> \o Replaced(Tail(t), v)

Captured(row) ==
    /\ ReSearch(row["Keyword"], UserMessage).groups # <<>>
    /\ ReSearch(row["Keyword"], UserMessage).groups[1] # None

ClaimedText(row) ==
    IF Contains(Get(row, "TextReply", <<>>), NumField) /\ Captured(row)
    THEN Replaced(Get(row, "TextReply", <<>>),
                  ReSearch(row["Keyword"], UserMessage).groups[1])
    ELSE Get(row, "TextReply", <<>>)

C7_TextPlaceholder ==
    event.type = "message" =>
        \A n \in 1..Len(calls) :
            (/\ OneRowSearched(calls[n])
             /\ records[calls[n].sheet][1]["ResponseType"] = TypeText
             /\ Matches(records[calls[n].sheet][1]))
            => reply_messages =
                   <<[type |-> "text",
                      text |-> ClaimedText(records[calls[n].sheet][1])]>>

(***************************************************************************)
(* C8: a matching combo row gives, in this order, the text, the images of  *)
(* ImageURL1..4, the video (both of its fields present) and the button     *)
(* (RedirectURL or RedirectOA_ID present), each only if present, and of    *)
(* these the first five.                                                   *)
(***************************************************************************)
Candidates(row) ==
    <<[present |-> Truthy(row["TextReply"]), kind |-> "text", of |-> row["TextReply"]],
      [present |-> Truthy(row["ImageURL1"]), kind |-> "image", of |-> row["ImageURL1"]],
      [present |-> Truthy(row["ImageURL2"]), kind |-> "image", of |-> row["ImageURL2"]],
      [present |-> Truthy(row["ImageURL3"]), kind |-> "image", of |-> row["ImageURL3"]],
      [present |-> Truthy(row["ImageURL4"]), kind |-> "image", of |-> row["ImageURL4"]],
      [present |-> Truthy(row["VideoURL"]) /\ Truthy(row["PreviewImageURL"]),
       kind |-> "video", of |-> row["VideoURL"]],
      [present |-> Truthy(row["RedirectURL"]) \/ Truthy(row["RedirectOA_ID"]),
       kind |-> "template", of |-> <<>>]>>

IsPresent(c) == c.present

Described(item) ==
    [present |-> TRUE, kind |-> item.type,
     of |-> CASE item.type = "text" -> item.text
              [] item.type = "image" -> item.original_content_url
              [] item.type = "video" -> item.original_content_url
              [] OTHER -> <<>>]

ClaimedCombo(row) == Take(SelectSeq(Candidates(row), IsPresent), 5)

C8_ComboOrderAndCap ==
    event.type = "message" =>
        \A n \in 1..Len(calls) :
            (/\ OneRowSearched(calls[n])
             /\ records[calls[n].sheet][1]["ResponseType"] = TypeCombo
             /\ Matches(records[calls[n].sheet][1]))
            => /\ Len(calls[n].result.items)
                      = Len(ClaimedCombo(records[calls[n].sheet][1]))
               /\ \A k \in 1..Len(calls[n].result.items) :
                      Described(calls[n].result.items[k])
                          = ClaimedCombo(records[calls[n].sheet][1])[k]
               /\ calls[n].result.items # <<>>
                      => reply_messages = calls[n].result.items

\* TextReply, ImageURL1..4 and RedirectURL set: text and four images, no
\* button.
C8_Witness ==
    /\ event.type = "message"
    /\ Len(calls) = 1
    /\ OneRowSearched(calls[1])
    /\ records[calls[1].sheet][1]["ResponseType"] = TypeCombo
    /\ Truthy(records[calls[1].sheet][1]["TextReply"])
    /\ \A k \in 1..4 : Truthy(records[calls[1].sheet][1][ImageColumns[k]])
    /\ Truthy(records[calls[1].sheet][1]["RedirectURL"])
    /\ Len(reply_messages) = 5
    /\ reply_messages[1].type = "text"
    /\ \A k \in 2..5 : reply_messages[k].type = "image"

(***************************************************************************)
(* C9: the URI of the button of a redirect or combo row is RedirectURL     *)
(* whenever that is non-empty, whatever RedirectOA_ID holds, and the deep  *)
(* link prefix followed by RedirectOA_ID when only that is present.        *)
(***************************************************************************)
C9_ButtonUri ==
    event.type # "none" =>
        \A n \in 1..Len(calls) :
            \A k \in 1..Len(calls[n].result.items) :
                (/\ OneRowSearched(calls[n])
                 /\ calls[n].result.items[k].type = "template")
                => /\ Truthy(records[calls[n].sheet][1]["RedirectURL"])
                      => calls[n].result.items[k].template.actions[1].uri
                             = records[calls[n].sheet][1]["RedirectURL"]
                   /\ (/\ ~Truthy(records[calls[n].sheet][1]["RedirectURL"])
                       /\ Truthy(records[calls[n].sheet][1]["RedirectOA_ID"]))
                      => calls[n].result.items[k].template.actions[1].uri
                             = <<"https://line.me/R/ti/p/">>
                                   \o records[calls[n].sheet][1]["RedirectOA_ID"]
                   /\ reply_messages = calls[n].result.items

\* A redirect row with both RedirectURL and RedirectOA_ID: the button goes
\* to RedirectURL.
C9_Witness ==
    /\ event.type = "message"
    /\ Len(calls) = 1
    /\ OneRowSearched(calls[1])
    /\ records[calls[1].sheet][1]["ResponseType"] = TypeRedirect
    /\ Truthy(records[calls[1].sheet][1]["RedirectURL"])
    /\ Truthy(records[calls[1].sheet][1]["RedirectOA_ID"])
    /\ Len(reply_messages) = 1
    /\ reply_messages[1].type = "template"
    /\ reply_messages[1].template.actions[1].uri
           = records[calls[1].sheet][1]["RedirectURL"]

(***************************************************************************)
(* C10: handle_follow searches GeneralQnA only, for "@follow"; when the    *)
(* worksheet is read, it replies with the items of the first matching row  *)
(* if that composes any, and with the one greeting text when no row        *)
(* matches or the handle is None.                                          *)
(***************************************************************************)
FirstMatching(rows, i) ==
    Matches(rows[i]) /\ \A j \in 1..(i - 1) : ~Matches(rows[j])

C10_FollowGreeting ==
    event.type = "follow" =>
        /\ \A n \in 1..Len(calls) : calls[n].sheet = "GeneralQnA"
        /\ ~general_sheet => calls = <<>> /\ reply_messages = GreetingReply
        /\ (general_sheet /\ NoReadFailed)
           => /\ Len(calls) = 1
              /\ (\A i \in 1..Len(records["GeneralQnA"]) :
                      ~Matches(records["GeneralQnA"][i]))
                 => reply_messages = GreetingReply
              /\ \A i \in 1..Len(records["GeneralQnA"]) :
                     (FirstMatching(records["GeneralQnA"], i)
                      /\ Yields(records["GeneralQnA"][i]))
                     => reply_messages = ItemsOf(records["GeneralQnA"][i])

====
